---- MODULE Spec2Model ----
(***************************************************************************)
(* A model of uhelpers: from archive_helpers.py the CasJobs job-status     *)
(* logic (execute_casjobs_query, find_latest_query, inspect_casjobs_query),*)
(* the exoplanet orbit database filter, the read-cache-or-query helpers    *)
(* and gacs_list_query; from astronomy_helpers.py the AstroSource class;   *)
(* from source_extraction.py run_source_extractor.                         *)
(*                                                                         *)
(* The helpers are independent functions; each family has its own          *)
(* specification over its own variables (the others stay at their idle     *)
(* values):                                                                *)
(*   Spec      one call of execute_casjobs_query or inspect_casjobs_query  *)
(*             on an account with any job history                          *)
(*   SpecPoll  one client polling one query by repeated calls of           *)
(*             execute_casjobs_query, the server moving the jobs on        *)
(*   SpecPollFinishing  the same with downloads that succeed, a server     *)
(*             that gets the query finished in the end, and fairness       *)
(*   SpecFind  find_latest_query as a pure function of its arguments       *)
(*   SpecEod   get_exoplanet_orbit_database on any queried table           *)
(*   SpecVizier  calls of return_vizier_catalog_as_table on one out_dir    *)
(*   SpecGacs  calls of return_gacs_query_as_table, starting with no cache *)
(*   SpecGacsList  calls of gacs_list_query on one archive account         *)
(*   SpecAstro  method calls on one AstroSource object                     *)
(*   SpecSex   calls of run_source_extractor in one process                *)
(*                                                                         *)
(* Python values: None is the empty sequence << >> and a value v that may  *)
(* be None is <<v>>; list indices are 0-based as in the source, so         *)
(* job_info[i] of the source is job_info[i + 1] here.  A text is a         *)
(* sequence of characters.  A call's record holds its arguments, what it   *)
(* read, the requests it sent to the server in order, and how it ended:    *)
(* outcome "return" with result <<value>>, or outcome "raise" with the     *)
(* parts of the exception's message.                                       *)
(*                                                                         *)
(* Environment assumed by the CasJobs part: the name casjobs resolves to   *)
(* the casjobs client package when execute_casjobs_query runs (the module  *)
(* as shipped never imports it), the server answers job_info() and         *)
(* submit(), the statuses it reports are the strings "0" .. "5", and the   *)
(* timestamps it reports are well formed and coarse enough for their MJD   *)
(* to be exact in a float; it lists the jobs oldest first, stamps a new    *)
(* job no earlier than the jobs it holds, and never returns an ended job   *)
(* to ready or started.  The failures modelled are a failing download      *)
(* and a failing drop_table (which the code handles), a vizquery that      *)
(* writes no table, a Gaia archive query, table read or table write that   *)
(* raises, a crossmatch against a missing table, a Simbad query that       *)
(* finds nothing, a failing Gaia archive job, and an external command      *)
(* that exits with a nonzero status.  Uploads to the Gaia archive are      *)
(* taken to succeed.                                                       *)
(***************************************************************************)
EXTENDS Integers, Sequences, FiniteSets, TLC

VARIABLES
    job_history,   \* jobs.job_info(): the server's jobs of this user, oldest first
    mydb,          \* the tables in the user's MyDB on the server
    local_files,   \* the out_file paths written by a download
    call,          \* the last call of a CasJobs helper: arguments, requests, outcome
    fq,            \* SpecFind: arguments and result of a find_latest_query call
    eod,           \* SpecEod: the queried table, the cache file and the call made
    viz,           \* SpecVizier: the files of out_dir and the last call made
    gacs,          \* SpecGacs: the cache files and the last call made
    glq,           \* SpecGacsList: the user's tables on the archive, the output
                   \* files and the last call of gacs_list_query
    astro,         \* SpecAstro: an AstroSource object, its cache file, the last call
    sx             \* SpecSex: the working directory, the catalogs, the last call

casVars == <<job_history, mydb, local_files, call>>
restVars == <<glq, astro, sx>>
vars == <<job_history, mydb, local_files, call, fq, eod, viz, gacs, glq, astro, sx>>

----------------------------------------------------------------------------
(* Bounds *)

MaxInitJobs == 2     \* jobs in the history before the first call
MaxJobs == 3         \* jobs in the history (submissions stop there)
TicksPerDay == 2     \* instants of a day a timestamp distinguishes
MaxFindJobs == 3     \* SpecFind: entries of job_info
MaxPlanets == 3      \* SpecEod: rows of the queried table
MaxFiles == 2        \* SpecSex: entries of file_list

----------------------------------------------------------------------------
(* Values *)

None == << >>
Some(v) == <<v>>

Whitespace == {" ", "\n"}

\* Query texts: the same statement with and without surrounding whitespace,
\* with whitespace inside, and another statement.
Texts == { <<"q">>, <<" ", "q", "\n">>, <<"q", " ", "q">> }

\* The query argument of a call, and the texts of the jobs the server holds
\* before the first call.
CasTexts == { <<"q">>, <<" ", "q", "\n">>, <<"r", " ">> }
StoredTexts == { <<"q", "\n">>, <<"r", " ">> }

StatusCodes == {"0", "1", "2", "3", "4", "5"}

\* A TimeSubmit timestamp (ISO 8601, 'YYYY-MM-DDThh:mm:ss') is <<day, tick of day>>,
\* the tick below TicksPerDay.
Timestamps == { <<1, 0>>, <<1, 1>>, <<2, 0>> }

\* The timestamps of the jobs on the CasJobs server of Spec.
CasTimestamps == { <<1, 1>>, <<2, 0>> }

\* Timestamp a is strictly later than b: the order of the ISO strings.
Later(a, b) == a[1] > b[1] \/ (a[1] = b[1] /\ a[2] > b[2])

Jobs(texts, times) == [Query : texts, Status : StatusCodes, TimeSubmit : times]

RECURSIVE SeqsUpTo(_, _)
SeqsUpTo(S, n) ==
    IF n = 0 THEN { << >> }
    ELSE LET shorter == SeqsUpTo(S, n - 1)
         IN  shorter \cup { Append(s, x) : s \in { t \in shorter : Len(t) = n - 1 }, x \in S }

----------------------------------------------------------------------------
(* Pure helpers *)

RECURSIVE lstrip(_)
lstrip(s) ==
    IF Len(s) > 0 /\ Head(s) \in Whitespace THEN lstrip(Tail(s)) ELSE s

RECURSIVE rstrip(_)
rstrip(s) ==
    IF Len(s) > 0 /\ s[Len(s)] \in Whitespace
    THEN rstrip(SubSeq(s, 1, Len(s) - 1)) ELSE s

\* str.strip()
strip(s) == rstrip(lstrip(s))

\* job_info[::-1]
Reversed(s) == [i \in 1..Len(s) |-> s[Len(s) + 1 - i]]

\* Time(t, format='isot').mjd
mjd_ignoring_day(t) == t[2]

mjd(t) == t[1] * TicksPerDay + t[2]

\* np.argmax: the 0-based position of the first greatest element.
argmax_last(a) ==
    CHOOSE i \in 0..(Len(a) - 1) :
        /\ \A j \in 0..(Len(a) - 1) : a[j + 1] <= a[i + 1]
        /\ \A j \in (i + 1)..(Len(a) - 1) : a[j + 1] < a[i + 1]

argmax(a) ==
    CHOOSE i \in 0..(Len(a) - 1) :
        /\ \A j \in 0..(Len(a) - 1) : a[j + 1] <= a[i + 1]
        /\ \A j \in 0..(i - 1) : a[j + 1] < a[i + 1]

\* The loop of find_latest_query: the indices jj, ascending, whose Query
\* matches the query after strip() of both.
RECURSIVE matching_indices_from(_, _, _)
matching_indices_from(query, job_info, jj) ==
    IF jj >= Len(job_info) THEN << >>
    ELSE LET rest == matching_indices_from(query, job_info, jj + 1)
         IN  IF strip(job_info[jj + 1].Query) = strip(query)
             THEN <<jj>> \o rest ELSE rest

matching_indices_unstripped(query, job_info) ==
    LET RECURSIVE from(_)
        from(jj) ==
            IF jj >= Len(job_info) THEN << >>
            ELSE IF job_info[jj + 1].Query = query
                 THEN <<jj>> \o from(jj + 1) ELSE from(jj + 1)
    IN  from(0)

matching_indices(query, job_info) == matching_indices_from(query, job_info, 0)

find_latest_query(query, job_info) ==
    LET index_list == matching_indices(query, job_info)
        numer_of_matching_queries == Len(index_list)
    IN  IF numer_of_matching_queries = 0 THEN None
        ELSE IF numer_of_matching_queries = 1 THEN Some(index_list[1])
        ELSE LET time_submit ==
                     [j \in 1..numer_of_matching_queries |->
                          mjd(job_info[index_list[j] + 1].TimeSubmit)]
                 latest_index == argmax(time_submit)
             IN  Some(index_list[latest_index + 1])

----------------------------------------------------------------------------
(* execute_casjobs_query *)

TableNames == {"mytable"}
OutFiles == {"out.fits"}

\* What jobs.request_and_get_output raises when the download fails (None: it succeeds).
DownloadErrors == { None, Some("Output request failed.") }

Request(name, args) == [req |-> name, args |-> args]

NoCall ==
    [op |-> "none", query |-> << >>, table_name |-> "", out_file |-> "",
     overwrite_casjobs_query |-> FALSE, download_result |-> FALSE,
     job_info |-> << >>, job_index |-> None, download_error |-> None,
     drop_failed |-> FALSE, requests |-> << >>,
     outcome |-> "none", result |-> None, message |-> << >>]

\* Lines 314-336: the branch taken on the latest matching job.
status_branch_started_unhandled(job_index, job_info, overwrite_casjobs_query) ==
    IF job_index = None THEN "never_submitted"
    ELSE LET job_status == job_info[job_index[1] + 1].Status
         IN  IF job_status \in {"0"} THEN "in_the_works"
             ELSE IF job_status \in {"5"} /\ ~overwrite_casjobs_query THEN "finished"
             ELSE IF job_status \in {"2", "3", "4"} THEN "resubmit"
             ELSE "no_branch"

status_branch_overwrite_unchecked(job_index, job_info, overwrite_casjobs_query) ==
    IF job_index = None THEN "never_submitted"
    ELSE LET job_status == job_info[job_index[1] + 1].Status
         IN  IF job_status \in {"0", "1"} THEN "in_the_works"
             ELSE IF job_status \in {"5"} THEN "finished"
             ELSE IF job_status \in {"2", "3", "4"} THEN "resubmit"
             ELSE "no_branch"

status_branch_failed_only(job_index, job_info, overwrite_casjobs_query) ==
    IF job_index = None THEN "never_submitted"
    ELSE LET job_status == job_info[job_index[1] + 1].Status
         IN  IF job_status \in {"0", "1"} THEN "in_the_works"
             ELSE IF job_status \in {"5"} /\ ~overwrite_casjobs_query THEN "finished"
             ELSE IF job_status \in {"4"} THEN "resubmit"
             ELSE "no_branch"

status_branch(job_index, job_info, overwrite_casjobs_query) ==
    IF job_index = None THEN "never_submitted"
    ELSE LET job_status == job_info[job_index[1] + 1].Status
         IN  IF job_status \in {"0", "1"} THEN "in_the_works"
             ELSE IF job_status \in {"5"} /\ ~overwrite_casjobs_query THEN "finished"
             ELSE IF job_status \in {"2", "3", "4"} THEN "resubmit"
             ELSE "no_branch"

\* Lines 324-330: the call requests the download.
downloads_whatever_download_result(branch, download_result) == branch = "finished"

downloads_of(branch, download_result) == branch = "finished" /\ download_result

\* Lines 295, 316, 336, 338-339: submit_query when line 341 tests it.
submit_query_never_for_new(branch, overwrite_casjobs_query) ==
    IF overwrite_casjobs_query THEN 1
    ELSE IF branch \in {"resubmit"} THEN 1 ELSE 0

submit_query_of(branch, overwrite_casjobs_query) ==
    IF overwrite_casjobs_query THEN 1
    ELSE IF branch \in {"never_submitted", "resubmit"} THEN 1 ELSE 0

\* Lines 294, 323, 351: job_is_ready when line 353 returns it.
job_is_ready_never(branch, submit_query) == 0

job_is_ready_stale(branch, submit_query) ==
    IF branch = "in_the_works" THEN 0 ELSE 1

job_is_ready_of(branch, submit_query) ==
    IF submit_query = 1 THEN 0
    ELSE IF branch = "in_the_works" THEN 0 ELSE 1

\* Line 332: the message of the exception raised when the download failed.
download_failed_message_without_table(e, table_name) ==
    <<"casjobs table download failed with message: ", e,
      "\nPlease check that table is not empty.">>

download_failed_message(e, table_name) ==
    <<"casjobs table download failed with message: ", e,
      "\nPlease check that table ", table_name, " is not empty.">>

\* Lines 341-348: the requests of a submission.
submit_requests_without_drop(query, table_name, context) ==
    << Request("submit", <<query, context>>) >>

submit_requests(query, table_name, context) ==
    << Request("drop_table", <<table_name>>),
       Request("submit", <<query, context>>) >>

\* Lines 342-346: jobs.drop_table raises when the server has no such table,
\* and may raise for any other reason; the bare except swallows it.  Without
\* a drop attempt nothing fails.
drop_failed_is_possible(drop_failed, table_name, tables, attempted) ==
    /\ (~attempted) => ~drop_failed
    /\ (attempted /\ table_name \notin tables) => drop_failed

\* The server's side of jobs.submit: a new job, ready, stamped with a time
\* no earlier than any job it holds.
SubmitTimes(history) ==
    { t \in CasTimestamps : \A i \in 1..Len(history) : ~Later(history[i].TimeSubmit, t) }

\* A call with the query and overwrite_casjobs_query drawn from the sets given.
execute_casjobs_query_with(queries, overwrites) ==
    \* (a value bound by \E over a singleton is computed once)
    \E job_info \in { Reversed(job_history) } :
    \E query \in queries :
    \E job_index \in { find_latest_query(query, job_info) } :
    \E overwrite_casjobs_query \in overwrites :
    \E branch \in { status_branch(job_index, job_info, overwrite_casjobs_query) } :
    \E table_name \in TableNames, out_file \in OutFiles, download_result \in BOOLEAN,
       download_error \in DownloadErrors, drop_failed \in BOOLEAN :
        LET downloads == downloads_of(branch, download_result)
            download_request ==
                IF downloads
                THEN << Request("request_and_get_output", <<table_name, "FITS", out_file>>) >>
                ELSE << >>
            submit_query == submit_query_of(branch, overwrite_casjobs_query)
            job_is_ready == job_is_ready_of(branch, submit_query)
            entry == [NoCall EXCEPT !.op = "execute_casjobs_query", !.query = query,
                        !.table_name = table_name, !.out_file = out_file,
                        !.overwrite_casjobs_query = overwrite_casjobs_query,
                        !.download_result = download_result,
                        !.job_info = job_info, !.job_index = job_index,
                        !.download_error = download_error]
        IN  /\ (~downloads) => download_error = None
            /\ drop_failed_is_possible(drop_failed, table_name, mydb,
                                       submit_query = 1 /\ ~(downloads /\ download_error # None))
            /\ IF downloads /\ download_error # None
               THEN \* lines 331-332: the download raised
                    /\ call' = [entry EXCEPT !.requests = download_request,
                                   !.outcome = "raise",
                                   !.message = download_failed_message(download_error[1],
                                                                       table_name)]
                    /\ UNCHANGED <<job_history, mydb, local_files>>
               ELSE IF submit_query = 1
               THEN \* lines 341-351
                    /\ Len(job_history) < MaxJobs
                    /\ \E now \in SubmitTimes(job_history) :
                          job_history' = Append(job_history,
                              [Query |-> query, Status |-> "0", TimeSubmit |-> now])
                    /\ mydb' = IF drop_failed THEN mydb ELSE mydb \ {table_name}
                    /\ local_files' = local_files \cup (IF downloads THEN {out_file} ELSE {})
                    /\ call' = [entry EXCEPT
                                   !.drop_failed = drop_failed,
                                   !.requests = download_request
                                                \o submit_requests(query, table_name, "TwoMassNew"),
                                   !.outcome = "return", !.result = Some(job_is_ready)]
               ELSE /\ local_files' = local_files \cup (IF downloads THEN {out_file} ELSE {})
                    /\ call' = [entry EXCEPT !.requests = download_request,
                                   !.outcome = "return", !.result = Some(job_is_ready)]
                    /\ UNCHANGED <<job_history, mydb>>
            /\ UNCHANGED <<fq, eod, viz, gacs, restVars>>

execute_casjobs_query == execute_casjobs_query_with(CasTexts, BOOLEAN)

\* Lines 414-417: jobs.job_info() read and put latest first.
job_info_oldest_first(history) == history

job_info_latest_first(history) == Reversed(history)

\* inspect_casjobs_query: lines 410-421.  The value returned is job_index,
\* which may be None: the result is <<job_index>>.
inspect_casjobs_query ==
    \E query \in CasTexts :
      \E job_info \in { job_info_latest_first(job_history) } :
      \E job_index \in { find_latest_query(query, job_info) } :
        /\ call' = [NoCall EXCEPT !.op = "inspect_casjobs_query", !.query = query,
                       !.job_info = job_info, !.job_index = job_index,
                       !.outcome = "return", !.result = Some(job_index)]
        /\ UNCHANGED <<job_history, mydb, local_files>>
        /\ UNCHANGED <<fq, eod, viz, gacs, restVars>>

InitCas ==
    /\ job_history \in SeqsUpTo(Jobs(StoredTexts, CasTimestamps), MaxInitJobs)
    /\ mydb \in SUBSET TableNames
    /\ local_files = {}
    /\ call = NoCall

IdleCas ==
    /\ job_history = << >>
    /\ mydb = {}
    /\ local_files = {}
    /\ call = NoCall

IdleFind == [query |-> << >>, job_info |-> << >>, done |-> FALSE, job_index |-> None]

IdleEod ==
    [queried |-> << >>, eod_file |-> None, overwrite |-> FALSE,
     keep_only_most_massive_planet |-> FALSE, done |-> FALSE, fresh |-> FALSE,
     eod_table |-> << >>]

\* A file system path as the sequence of the parts it is built from.
VizierPaths == { <<"out_dir", n, "_query", x>> : n \in {"cat1", "cat2"}, x \in {".txt", ".fits"} }
GacsPaths == { <<s, x>> : s \in {"seed1", "seed2"}, x \in {".vot", ".fits"} }

\* A file's content: its format and what it was made from.
Content(format, from) == [format |-> format, from |-> from]

IdleVizier ==
    [files |-> [f \in VizierPaths |-> None], done |-> FALSE, catalog_name |-> "",
     catalog_string |-> "", overwrite |-> FALSE, queryfile_present |-> FALSE,
     ran_query |-> FALSE, outcome |-> "none", table |-> None]

IdleGacs ==
    [files |-> [f \in GacsPaths |-> None], done |-> FALSE, query_string |-> "",
     output_file_seed |-> "", overwrite |-> FALSE, vot_present |-> FALSE,
     fits_before |-> None, sent_query |-> FALSE, outcome |-> "none", table |-> None]

\* The arguments of gacs_list_query that name tables, and the output files
\* it can write (lines 250-252, outputFileName None, one id_str_gacs_table).
InputTableNames == {"hip_star_list", "other_list"}
GacsTableNames == {"tgas_source", "gaia_source"}
outputFileName_of(gacs_table_name, input_table_name) ==
    <<"out_dir", gacs_table_name, input_table_name, "_matched_on_", "hip", ".vot">>
GacsListPaths ==
    { outputFileName_of(g, n) : g \in GacsTableNames, n \in InputTableNames }

IdleGlq ==
    [schemaNames |-> {"public"}, userTableNames |-> {},
     files |-> [f \in GacsListPaths |-> None],
     done |-> FALSE, input_table_name |-> "", gacs_table_name |-> "",
     overwrite |-> FALSE,
     commands |-> << >>, ran_crossmatch |-> FALSE, tables_at_query |-> {},
     outcome |-> "none", table |-> None]

IdleAstro ==
    [attributes |-> {}, IDS |-> None, out_file |-> None, completed |-> {},
     op |-> "none", votable_fields |-> "", overwrite |-> FALSE,
     outcome |-> "none", before |-> << >>]

IdleSx ==
    [cwd |-> "", products |-> {}, done |-> FALSE, cwd_at_entry |-> "",
     file_list |-> << >>, source_extractor_source_dir |-> None,
     use_psfex |-> FALSE, overwrite |-> FALSE, commands |-> << >>,
     outcome |-> "none"]

IdleRest ==
    /\ glq = IdleGlq
    /\ astro = IdleAstro
    /\ sx = IdleSx

\* Every variable of the CasJobs and read-cache-or-query helpers idle.
IdleArchive ==
    /\ IdleCas
    /\ fq = IdleFind
    /\ eod = IdleEod
    /\ viz = IdleVizier
    /\ gacs = IdleGacs

Init ==
    /\ InitCas
    /\ IdleRest
    /\ fq = IdleFind
    /\ eod = IdleEod
    /\ viz = IdleVizier
    /\ gacs = IdleGacs

\* One call on an account in any state.
FirstCall ==
    /\ call = NoCall
    /\ execute_casjobs_query

FirstInspection ==
    /\ call = NoCall
    /\ inspect_casjobs_query

Next == FirstCall \/ FirstInspection

Spec == Init /\ [][Next]_vars

----------------------------------------------------------------------------
(* SpecPoll: one client polling one query, the server moving the jobs on *)

\* The query polled, as the caller may write it.
PollTexts == { <<"q">>, <<" ", "q", "\n">> }

\* The life of a job on the server, in the status codes of lines 266-272:
\* ready, started, then finished or failed; a job not yet ended can be
\* cancelled (canceling, then cancelled).  An ended job stays as it is.
StatusMoves ==
    { <<"0", "1">>, <<"1", "5">>, <<"1", "4">>, <<"0", "2">>, <<"1", "2">>, <<"2", "3">> }

\* A call of the polling client: overwrite_casjobs_query left at its default.
PollCall == execute_casjobs_query_with(PollTexts, {FALSE})

\* The server moves one job on; a job that finishes leaves its table in MyDB.
ServerStep ==
    /\ \E i \in 1..Len(job_history), to \in StatusCodes :
          /\ <<job_history[i].Status, to>> \in StatusMoves
          /\ job_history' = [job_history EXCEPT ![i].Status = to]
          /\ mydb' = IF to = "5" THEN mydb \cup TableNames ELSE mydb
    /\ UNCHANGED <<local_files, call, fq, eod, viz, gacs, restVars>>

InitPoll ==
    /\ IdleCas
    /\ IdleRest
    /\ fq = IdleFind
    /\ eod = IdleEod
    /\ viz = IdleVizier
    /\ gacs = IdleGacs

NextPoll == PollCall \/ ServerStep

SpecPoll == InitPoll /\ [][NextPoll]_vars

\* The polling of a query the server gets finished in the end: downloads
\* succeed, and the server lets a job fail or be cancelled only while the
\* history has room for the resubmission.  The server keeps working (weak
\* fairness), and the client calls again and again: in every state some call
\* changes the call record (CallPossible), so calling infinitely often is
\* what weak fairness of the call amounts to.
PollCallDownloading ==
    /\ PollCall
    /\ call'.download_error = None

ServerStepFinishing ==
    /\ ServerStep
    /\ \/ Len(job_history) < MaxJobs
       \/ \A i \in 1..Len(job_history) :
              job_history'[i].Status \in {"2", "3", "4"}
                  => job_history[i].Status \in {"2", "3", "4"}

NextPollFinishing == PollCallDownloading \/ ServerStepFinishing

SpecPollFinishing ==
    /\ InitPoll
    /\ [][NextPollFinishing]_vars
    /\ WF_vars(ServerStepFinishing)
    /\ []<><<PollCallDownloading>>_vars

CallPossible == ENABLED <<PollCallDownloading>>_vars

----------------------------------------------------------------------------
(* SpecFind: find_latest_query on any job_info *)

FindJobs == [Query : Texts, Status : {"5"}, TimeSubmit : Timestamps]

InitFind ==
    /\ fq \in [query : Texts, job_info : SeqsUpTo(FindJobs, MaxFindJobs),
                done : {FALSE}, job_index : {None}]
    /\ IdleCas
    /\ IdleRest
    /\ eod = IdleEod
    /\ viz = IdleVizier
    /\ gacs = IdleGacs

CallFind ==
    /\ ~fq.done
    /\ fq' = [fq EXCEPT !.done = TRUE,
                         !.job_index = find_latest_query(fq.query, fq.job_info)]
    /\ UNCHANGED <<casVars, eod, viz, gacs, restVars>>

NextFind == CallFind

SpecFind == InitFind /\ [][NextFind]_vars

----------------------------------------------------------------------------
(* SpecEod: get_exoplanet_orbit_database *)

\* A row of the orbit database: the planet, the Gaia DR2 source id found for
\* its star (0: none found, line 61) and its MASS (0: no estimate).
SourceIds == {0, 1, 2}
Masses == {0, 1, 2}
Planets == [NAME : 1..MaxPlanets, gaia_dr2_source_id : SourceIds, MASS : Masses]

\* ExoplanetOrbitDatabase.get_table() with the column of line 78: any table of
\* distinct planets.
QueriedTables ==
    { t \in SeqsUpTo(Planets, MaxPlanets) : \A i \in 1..Len(t) : t[i].NAME = i }

\* What the cache file holds when it exists before the call.
CachedTable == << [NAME |-> 1, gaia_dr2_source_id |-> 1, MASS |-> 1] >>

\* Table.remove_rows: the table without the rows at the (1-based) places given.
remove_rows(table, remove_index) ==
    LET kept[i \in 0..Len(table)] ==
            IF i = 0 THEN << >>
            ELSE IF i \in remove_index THEN kept[i - 1]
            ELSE Append(kept[i - 1], table[i])
    IN  kept[Len(table)]

\* np.where(eod_table['gaia_dr2_source_id'] == source_id)[0]
where_source_id(table, source_id) ==
    { i \in 1..Len(table) : table[i].gaia_dr2_source_id = source_id }

\* np.max
max_of(S) == CHOOSE m \in S : \A x \in S : x <= m

\* The column eod_table['gaia_dr2_source_id'] a for loop iterates over: the
\* column object of the table at the start of the loop (remove_rows gives the
\* table new columns).
source_id_column(table) == [i \in 1..Len(table) |-> table[i].gaia_dr2_source_id]

\* Lines 84-89: keep only most massive planet.
RECURSIVE keep_most_massive_loop(_, _)
keep_most_massive_loop(column, table) ==
    IF Len(column) = 0 THEN table
    ELSE LET index == where_source_id(table, Head(column))
             remove_index ==
                 { i \in index : table[i].MASS < max_of({ table[k].MASS : k \in index }) }
         IN  keep_most_massive_loop(Tail(column),
                 IF Cardinality(index) # 1 THEN remove_rows(table, remove_index) ELSE table)

\* Lines 92-100: remove planets without mass estimate.
RECURSIVE remove_without_mass_loop(_, _)
remove_without_mass_loop(column, table) ==
    IF Len(column) = 0 THEN table
    ELSE LET index == where_source_id(table, Head(column))
             remove_index ==
                 IF Cardinality({ table[k].MASS : k \in index }) = 1 THEN index
                 ELSE { i \in index : table[i].MASS = 0 }
         IN  remove_without_mass_loop(Tail(column),
                 IF Cardinality(index) # 1 THEN remove_rows(table, remove_index) ELSE table)

\* Lines 78-100: the table written and returned by a fresh query.
filtered_table(queried, keep_only_most_massive_planet) ==
    LET resolved == remove_rows(queried, where_source_id(queried, 0))
        most_massive == keep_most_massive_loop(source_id_column(resolved), resolved)
    IN  IF keep_only_most_massive_planet
        THEN remove_without_mass_loop(source_id_column(most_massive), most_massive)
        ELSE resolved

get_exoplanet_orbit_database ==
    /\ ~eod.done
    /\ LET fresh == eod.eod_file = None \/ eod.overwrite
           eod_table ==
               IF fresh THEN filtered_table(eod.queried, eod.keep_only_most_massive_planet)
               ELSE eod.eod_file[1]
       IN  eod' = [eod EXCEPT !.done = TRUE, !.fresh = fresh, !.eod_table = eod_table,
                              !.eod_file = Some(eod_table)]
    /\ UNCHANGED <<casVars, fq, viz, gacs, restVars>>

InitEod ==
    /\ eod \in [queried : QueriedTables, eod_file : {None, Some(CachedTable)},
                overwrite : BOOLEAN, keep_only_most_massive_planet : BOOLEAN,
                done : {FALSE}, fresh : {FALSE}, eod_table : {<< >>}]
    /\ IdleCas
    /\ IdleRest
    /\ fq = IdleFind
    /\ viz = IdleVizier
    /\ gacs = IdleGacs

NextEod == get_exoplanet_orbit_database

SpecEod == InitEod /\ [][NextEod]_vars

----------------------------------------------------------------------------
(* SpecVizier: return_vizier_catalog_as_table *)

CatalogNames == {"cat1", "cat2"}
CatalogStrings == {"I/239", "I/311"}

\* os.path.isfile
isfile(files, path) == files[path] # None

\* Line 125: os.path.join(out_dir, '{}_query.txt'.format(catalog_name))
queryfile_of(catalog_name) == <<"out_dir", catalog_name, "_query", ".txt">>

\* Line 126: queryfile.replace('.txt', '.fits')
replace_txt_by_fits(path) ==
    [i \in 1..Len(path) |-> IF path[i] = ".txt" THEN ".fits" ELSE path[i]]

\* Line 127: not(os.path.isfile(queryfile)) | overwrite.  | binds tighter than
\* not: the test is not (isfile(queryfile) | overwrite).
runs_vizquery(queryfile_present, overwrite) == ~(queryfile_present \/ overwrite)

\* Line 131: not (os.path.isfile(fits_file)) | overwrite, read likewise.
reads_queryfile(fits_file_present, overwrite) == ~(fits_file_present \/ overwrite)

\* Lines 128-129: the shell writes vizquery's output to queryfile; the exit
\* status of os.system is not looked at.
vizquery_output(catalog_string, vizquery_ok) ==
    IF vizquery_ok THEN Content("csv", catalog_string) ELSE Content("garbage", catalog_string)

return_vizier_catalog_as_table ==
    \E catalog_string \in CatalogStrings, catalog_name \in CatalogNames,
       overwrite \in BOOLEAN, vizquery_ok \in BOOLEAN :
        LET queryfile == queryfile_of(catalog_name)
            fits_file == replace_txt_by_fits(queryfile)
            ran_query == runs_vizquery(isfile(viz.files, queryfile), overwrite)
            queried ==
                IF ran_query
                THEN [viz.files EXCEPT ![queryfile] =
                          Some(vizquery_output(catalog_string, vizquery_ok))]
                ELSE viz.files
            entry == [viz EXCEPT !.done = TRUE, !.catalog_name = catalog_name,
                         !.catalog_string = catalog_string, !.overwrite = overwrite,
                         !.queryfile_present = isfile(viz.files, queryfile),
                         !.ran_query = ran_query, !.files = queried]
        IN  /\ (~ran_query) => vizquery_ok
            /\ IF reads_queryfile(isfile(queried, fits_file), overwrite)
               THEN \* lines 132-133
                    IF isfile(queried, queryfile) /\ queried[queryfile][1].format = "csv"
                    THEN LET t == Content("fits", queried[queryfile][1].from)
                         IN  viz' = [entry EXCEPT !.files[fits_file] = Some(t),
                                        !.outcome = "return", !.table = Some(t)]
                    ELSE viz' = [entry EXCEPT !.outcome = "raise", !.table = None]
               ELSE \* line 135
                    IF isfile(queried, fits_file)
                    THEN viz' = [entry EXCEPT !.outcome = "return",
                                    !.table = queried[fits_file]]
                    ELSE viz' = [entry EXCEPT !.outcome = "raise", !.table = None]
            /\ UNCHANGED <<casVars, fq, eod, gacs, restVars>>

InitVizier ==
    /\ viz = IdleVizier
    /\ IdleCas
    /\ IdleRest
    /\ fq = IdleFind
    /\ eod = IdleEod
    /\ gacs = IdleGacs

NextVizier == return_vizier_catalog_as_table

SpecVizier == InitVizier /\ [][NextVizier]_vars

----------------------------------------------------------------------------
(* SpecGacs: return_gacs_query_as_table *)

Seeds == {"seed1", "seed2"}
QueryStrings == {"adql1", "adql2"}

\* How pgp.retrieveQueryResult ends: it writes the VOTable of the result; it
\* raises before writing; it writes what the archive answered to a query it
\* could not run, which is no VOTable.
RetrieveOutcomes == {"ok", "raise", "not_a_votable"}

\* How d.write(..., overwrite=True) ends: written; raised before the file was
\* touched; raised after the existing file was removed.
WriteOutcomes == {"ok", "raise_untouched", "raise_removed"}

\* Line 157: (overwrite) | (not os.path.isfile(output_file_seed+'.vot'))
queries_archive_overwrite_ignored(overwrite, vot_present) == ~vot_present

queries_archive(overwrite, vot_present) == overwrite \/ ~vot_present

return_gacs_query_as_table ==
    \E query_string \in QueryStrings, output_file_seed \in Seeds, overwrite \in BOOLEAN,
       retrieve \in RetrieveOutcomes, write \in WriteOutcomes :
        LET vot == <<output_file_seed, ".vot">>
            fits == <<output_file_seed, ".fits">>
            sent_query == queries_archive(overwrite, isfile(gacs.files, vot))
            entry == [gacs EXCEPT !.done = TRUE, !.query_string = query_string,
                         !.output_file_seed = output_file_seed, !.overwrite = overwrite,
                         !.vot_present = isfile(gacs.files, vot),
                         !.fits_before = gacs.files[fits],
                         !.sent_query = sent_query, !.table = None]
        IN  /\ (~sent_query) => (retrieve = "ok" /\ write = "ok")
            /\ (retrieve # "ok") => write = "ok"
            /\ IF sent_query
               THEN IF retrieve = "raise"
                    THEN \* line 158 raised
                         gacs' = [entry EXCEPT !.outcome = "raise"]
                    ELSE IF retrieve = "not_a_votable"
                    THEN \* line 159 raised
                         gacs' = [entry EXCEPT !.outcome = "raise",
                                     !.files[vot] = Some(Content("garbage", query_string))]
                    ELSE IF write = "ok"
                    THEN \* lines 158-167
                         gacs' = [entry EXCEPT !.outcome = "return",
                                     !.files[vot] = Some(Content("votable", query_string)),
                                     !.files[fits] = Some(Content("fits", query_string)),
                                     !.table = Some(Content("fits", query_string))]
                    ELSE \* line 167 raised
                         gacs' = [entry EXCEPT !.outcome = "raise",
                                     !.files[vot] = Some(Content("votable", query_string)),
                                     !.files[fits] = IF write = "raise_removed" THEN None
                                                     ELSE gacs.files[fits]]
               ELSE \* line 171
                    IF isfile(gacs.files, fits)
                    THEN gacs' = [entry EXCEPT !.outcome = "return",
                                     !.table = gacs.files[fits]]
                    ELSE gacs' = [entry EXCEPT !.outcome = "raise"]
            /\ UNCHANGED <<casVars, fq, eod, viz, restVars>>

InitGacs ==
    /\ gacs = IdleGacs
    /\ IdleCas
    /\ IdleRest
    /\ fq = IdleFind
    /\ eod = IdleEod
    /\ viz = IdleVizier

NextGacs == return_gacs_query_as_table

SpecGacs == InitGacs /\ [][NextGacs]_vars

----------------------------------------------------------------------------
(* SpecGacsList: gacs_list_query *)

\* Line 221: 'user_%s' % username
userSchemaName == "user_name"

\* Lines 224-239: the commands sent to the archive before the crossmatch.
\* tableProps holds the schema and table names read at the start of the call.
upload_commands(schemaNames, userTableNames, input_table_name, overwrite) ==
    IF userSchemaName \in schemaNames
    THEN IF input_table_name \notin userTableNames
         THEN << Request("uploadTable", <<input_table_name>>) >>
         ELSE IF overwrite
         THEN << Request("deleteTable", <<input_table_name>>),
                 Request("uploadTable", <<input_table_name>>) >>
         ELSE << >>
    ELSE << >>

\* The archive's side of the commands: the user's tables afterwards.
RECURSIVE tables_after(_, _)
tables_after(tables, commands) ==
    IF commands = << >> THEN tables
    ELSE tables_after(
             IF Head(commands).req = "uploadTable"
             THEN tables \cup {Head(commands).args[1]}
             ELSE tables \ {Head(commands).args[1]},
             Tail(commands))

\* Line 254: overwrite | (not os.path.isfile(outputFileName))
runs_crossmatch(overwrite, output_present) == overwrite \/ ~output_present

\* What the crossmatch of line 255 leaves in outputFileName: the matched
\* table when user_<name>.<input_table_name> exists; otherwise the archive
\* answers with an error and the file is left as it was or holds that answer.
CrossmatchOutputs(file, input_table_name, tables) ==
    IF input_table_name \in tables
    THEN { Some(Content("votable", input_table_name)) }
    ELSE { file, Some(Content("garbage", input_table_name)) }

gacs_list_query ==
    \E input_table_name \in InputTableNames, gacs_table_name \in GacsTableNames,
       overwrite \in BOOLEAN :
        LET outputFileName == outputFileName_of(gacs_table_name, input_table_name)
            commands == upload_commands(glq.schemaNames, glq.userTableNames,
                                        input_table_name, overwrite)
            tables == tables_after(glq.userTableNames, commands)
            crossmatch == runs_crossmatch(overwrite, isfile(glq.files, outputFileName))
            entry == [glq EXCEPT !.done = TRUE, !.input_table_name = input_table_name,
                         !.gacs_table_name = gacs_table_name,
                         !.overwrite = overwrite, !.commands = commands,
                         !.userTableNames = tables,
                         !.schemaNames = IF tables = {} THEN glq.schemaNames
                                         ELSE glq.schemaNames \cup {userSchemaName},
                         !.ran_crossmatch = crossmatch,
                         !.tables_at_query = IF crossmatch THEN tables ELSE {}]
        IN  /\ \E file \in IF crossmatch
                            THEN CrossmatchOutputs(glq.files[outputFileName],
                                                   input_table_name, tables)
                            ELSE { glq.files[outputFileName] } :
                  \* line 257
                  IF file # None /\ file[1].format = "votable"
                  THEN glq' = [entry EXCEPT !.files[outputFileName] = file,
                                  !.outcome = "return", !.table = file]
                  ELSE glq' = [entry EXCEPT !.files[outputFileName] = file,
                                  !.outcome = "raise", !.table = None]
            /\ UNCHANGED <<casVars, fq, eod, viz, gacs, astro, sx>>

\* An account with any tables (its schema is listed once it holds a table,
\* and may stay listed when the tables are gone), no output file yet.
InitGacsList ==
    /\ glq \in { [IdleGlq EXCEPT !.schemaNames = schemas, !.userTableNames = tables] :
                    schemas \in { {"public"}, {"public", userSchemaName} },
                    tables \in SUBSET InputTableNames }
    /\ (userSchemaName \notin glq.schemaNames) => glq.userTableNames = {}
    /\ astro = IdleAstro
    /\ sx = IdleSx
    /\ IdleArchive

NextGacsList == gacs_list_query

SpecGacsList == InitGacsList /\ [][NextGacsList]_vars

----------------------------------------------------------------------------
(* SpecAstro: one AstroSource object (astronomy_helpers.py) *)

\* The votable_fields argument: the default tuple of line 36, or None.
VotableFields == {"default", "None"}

\* The columns of the table Simbad answers with: its standard columns, and
\* with the default votable_fields the added ones, 'ids' giving IDS.
simbad_colnames(votable_fields) ==
    IF votable_fields = "default"
    THEN {"MAIN_ID", "RA", "DEC", "RA_d", "DEC_d", "PMDEC", "PMRA", "PLX_VALUE",
          "SP_TYPE", "IDS"}
    ELSE {"MAIN_ID", "RA", "DEC"}

\* What the IDS of the object list: a Gaia DR2 identifier, only a Gaia DR1
\* identifier, or neither.
IdsKinds == {"Gaia DR2 ", "Gaia DR1 ", "no Gaia"}

\* How simb.query_object ends: a table with one row, or None (object unknown).
SimbadAnswers == { None } \cup { Some(k) : k \in IdsKinds }

\* Line 52: (not (os.path.isfile(out_file))) | overwrite
queries_simbad(out_file_present, overwrite) == (~out_file_present) \/ overwrite

\* Lines 29-30
NewAstroSource == [IdleAstro EXCEPT !.attributes = {"identifier"}]

\* What a call is entered with: the object and the file.
AstroBefore(a) == <<a.attributes, a.IDS, a.out_file>>

\* Lines 35-67.  pt.write of line 59 is given no overwrite argument: on an
\* existing file it overwrites or raises, by the astropy version.
set_simbad_fields ==
    \E overwrite \in BOOLEAN, votable_fields \in VotableFields,
       answer \in SimbadAnswers, write_ok \in BOOLEAN :
        LET entry == [astro EXCEPT !.op = "set_simbad_fields",
                         !.votable_fields = votable_fields, !.overwrite = overwrite,
                         !.before = AstroBefore(astro)]
            queries == queries_simbad(astro.out_file # None, overwrite)
            pt == IF queries
                  THEN [colnames |-> simbad_colnames(votable_fields),
                        ids |-> IF votable_fields = "default" THEN answer ELSE None]
                  ELSE astro.out_file[1]
        IN  /\ (~queries) => (answer = Some("no Gaia") /\ write_ok)
            /\ (astro.out_file = None \/ answer = None) => write_ok
            /\ IF queries /\ answer = None
               THEN \* line 59: pt is None
                    astro' = [entry EXCEPT !.outcome = "AttributeError"]
               ELSE IF queries /\ ~write_ok
               THEN astro' = [entry EXCEPT !.outcome = "OSError"]
               ELSE \* lines 63-67
                    astro' = [entry EXCEPT
                                 !.out_file = Some(pt),
                                 !.attributes = astro.attributes \cup pt.colnames,
                                 !.IDS = IF "IDS" \in pt.colnames THEN pt.ids
                                         ELSE astro.IDS,
                                 !.completed = astro.completed \cup {votable_fields},
                                 !.outcome = "return"]
            /\ UNCHANGED <<casVars, fq, eod, viz, gacs, glq, sx>>

\* Lines 73-74 and 94-95: hasattr(self, 'IDS') is False
run_set_simbad_fields_first(attributes) == "IDS" \notin attributes

\* Lines 70-88
set_gaia_source_id ==
    LET entry == [astro EXCEPT !.op = "set_gaia_source_id",
                     !.before = AstroBefore(astro)]
    IN  /\ IF run_set_simbad_fields_first(astro.attributes)
           THEN astro' = [entry EXCEPT !.outcome = "RuntimeError"]
           ELSE astro' = [entry EXCEPT
                             !.attributes = astro.attributes
                                 \cup {"simbad_identifiers", "gaia_dr2_id", "gaia_dr1_id"},
                             !.outcome = "return"]
        /\ UNCHANGED <<casVars, fq, eod, viz, gacs, glq, sx>>

\* Lines 91-115.  The Gaia archive job of lines 105-106 and 112-113 may fail.
add_gaia ==
    \E job_ok \in BOOLEAN :
        LET entry == [astro EXCEPT !.op = "add_gaia", !.before = AstroBefore(astro)]
        IN  /\ IF run_set_simbad_fields_first(astro.attributes)
               THEN job_ok /\ astro' = [entry EXCEPT !.outcome = "RuntimeError"]
               ELSE IF astro.IDS = Some("no Gaia")
               THEN job_ok /\ astro' = [entry EXCEPT
                                           !.attributes = astro.attributes
                                               \cup {"simbad_identifiers"},
                                           !.outcome = "return"]
               ELSE IF ~job_ok
               THEN astro' = [entry EXCEPT
                                 !.attributes = astro.attributes \cup {"simbad_identifiers"},
                                 !.outcome = "HTTPError"]
               ELSE astro' = [entry EXCEPT
                                 !.attributes = astro.attributes
                                     \cup {"simbad_identifiers",
                                           IF astro.IDS = Some("Gaia DR2 ")
                                           THEN "gaiadr2_table" ELSE "gaiadr1_table"},
                                 !.outcome = "return"]
            /\ UNCHANGED <<casVars, fq, eod, viz, gacs, glq, sx>>

InitAstro ==
    /\ astro = NewAstroSource
    /\ glq = IdleGlq
    /\ sx = IdleSx
    /\ IdleArchive

NextAstro == set_simbad_fields \/ set_gaia_source_id \/ add_gaia

SpecAstro == InitAstro /\ [][NextAstro]_vars

----------------------------------------------------------------------------
(* SpecSex: run_source_extractor (source_extraction.py) *)

ImageFiles == {"a.fits", "b.fits"}
SourceDirs == { None, Some("sexdir") }

\* What os.system returns for the k-th command of a call when the failing-th
\* is the one that fails (failing 0: none does).  A call ends at its first
\* failed command.
exit_status(k, failing) == IF k = failing THEN 256 ELSE 0

\* Lines 19-23: system_command raises RuntimeError.
system_command_raises(ret) == ret # 0

\* Lines 91-93: ofile.replace('.fits', '.cat') and '_prep.psf'
name_cat(file) == <<file, ".cat">>
name_psf(file) == <<file, "_prep.psf">>

\* Lines 103-159: the external commands run for a file, in order, each with
\* the file it leaves when it exits with status 0.
commands_for(file, use_psfex, overwrite, products) ==
    IF use_psfex
    THEN IF name_psf(file) \notin products \/ overwrite
         THEN << [run |-> "sex_prepare_for_psfex", file |-> file, leaves |-> << >>],
                 [run |-> "psfex", file |-> file, leaves |-> <<name_psf(file)>>],
                 [run |-> "sex", file |-> file, leaves |-> <<name_cat(file)>>] >>
         ELSE << >>
    ELSE IF name_cat(file) \notin products \/ overwrite
         THEN << [run |-> "sex", file |-> file, leaves |-> <<name_cat(file)>>] >>
         ELSE << >>

\* The commands of one file run in order until one makes system_command
\* raise.
RECURSIVE run_commands(_, _, _)
run_commands(st, todo, failing) ==
    IF todo = << >> \/ st.raised THEN st
    ELSE LET ret == exit_status(Len(st.commands) + 1, failing)
             ran == [st EXCEPT !.commands = Append(st.commands, Head(todo))]
         IN  IF system_command_raises(ret)
             THEN [ran EXCEPT !.raised = TRUE]
             ELSE run_commands(
                      [ran EXCEPT !.products =
                           st.products \cup { Head(todo).leaves[k] :
                                                  k \in 1..Len(Head(todo).leaves) }],
                      Tail(todo), failing)

\* Lines 85-161: the loop over file_list.
RECURSIVE extract_loop(_, _, _, _, _, _)
extract_loop(st, file_list, source_extractor_source_dir, use_psfex, overwrite, failing) ==
    IF file_list = << >> \/ st.raised THEN st
    ELSE LET moved ==  \* lines 98-99
                 IF source_extractor_source_dir # None
                 THEN [st EXCEPT !.cwd = source_extractor_source_dir[1]] ELSE st
         IN  extract_loop(
                 run_commands(moved,
                     commands_for(Head(file_list), use_psfex, overwrite, moved.products),
                     failing),
                 Tail(file_list), source_extractor_source_dir, use_psfex, overwrite,
                 failing)

\* The most commands a call can run.
MaxCommands == 3 * MaxFiles

run_source_extractor ==
    \E file_list \in SeqsUpTo(ImageFiles, MaxFiles),
       source_extractor_source_dir \in SourceDirs,
       use_psfex \in BOOLEAN, overwrite \in BOOLEAN,
       failing \in 0..MaxCommands :
      \E current_dir \in { sx.cwd } :    \* line 78
      \E end \in { extract_loop([cwd |-> sx.cwd, products |-> sx.products,
                                  commands |-> << >>, raised |-> FALSE],
                                 file_list, source_extractor_source_dir,
                                 use_psfex, overwrite, failing) } :
            /\ failing <= Len(end.commands)
            /\ sx' = [sx EXCEPT
                         !.done = TRUE, !.cwd_at_entry = current_dir,
                         !.file_list = file_list,
                         !.source_extractor_source_dir = source_extractor_source_dir,
                         !.use_psfex = use_psfex, !.overwrite = overwrite,
                         !.commands = end.commands, !.products = end.products,
                         \* line 163 is reached only without an exception
                         !.cwd = IF end.raised THEN end.cwd ELSE current_dir,
                         !.outcome = IF end.raised THEN "RuntimeError" ELSE "return"]
            /\ UNCHANGED <<casVars, fq, eod, viz, gacs, glq, astro>>

InitSex ==
    /\ sx = [IdleSx EXCEPT !.cwd = "workdir"]
    /\ glq = IdleGlq
    /\ astro = IdleAstro
    /\ IdleArchive

NextSex == run_source_extractor

SpecSex == InitSex /\ [][NextSex]_vars

----------------------------------------------------------------------------
(* What the claims speak of, stated without the code's helpers *)

\* The characters of s from its first to its last non-whitespace character.
Core(s) ==
    LET inked == { k \in 1..Len(s) : s[k] \notin Whitespace }
    IN  IF inked = {} THEN << >>
        ELSE SubSeq(s, CHOOSE k \in inked : \A l \in inked : k <= l,
                       CHOOSE k \in inked : \A l \in inked : k >= l)

\* Texts a and b are equal after stripping surrounding whitespace from both.
SameQuery(a, b) == Core(a) = Core(b)

\* The 1-based places of the entries of job_info that match the query.
MatchingJobs(query, job_info) ==
    { i \in 1..Len(job_info) : SameQuery(job_info[i].Query, query) }

\* The matching entries no other matching entry is strictly later than.
MostRecentJobs(query, job_info) ==
    UNION { { i \in m : \A j \in m : ~Later(job_info[j].TimeSubmit, job_info[i].TimeSubmit) } :
            m \in { MatchingJobs(query, job_info) } }

Executed == call.op = "execute_casjobs_query"
CallMatching == MatchingJobs(call.query, call.job_info)
CallMostRecent == MostRecentJobs(call.query, call.job_info)
LatestStatusIn(S) ==
    \E recent \in { CallMostRecent } :
        /\ recent # {}
        /\ \A i \in recent : call.job_info[i].Status \in S

Sent(name) == { k \in 1..Len(call.requests) : call.requests[k].req = name }
Returned(v) == call.outcome = "return" /\ call.result = Some(v)

\* The call submitted the query as one new job: one submit request, and the
\* server's history is the one the call read plus a ready job with that text.
SubmittedOnce ==
    /\ Cardinality(Sent("submit")) = 1
    /\ \A k \in Sent("submit") : call.requests[k].args[1] = call.query
    /\ Len(job_history) = Len(call.job_info) + 1
    /\ SubSeq(job_history, 1, Len(call.job_info)) = Reversed(call.job_info)
    /\ job_history[Len(job_history)].Query = call.query
    /\ job_history[Len(job_history)].Status = "0"

SubmittedNothing ==
    /\ Sent("submit") = {}
    /\ job_history = Reversed(call.job_info)

DownloadRequestedOnce ==
    /\ Cardinality(Sent("request_and_get_output")) = 1
    /\ \A k \in Sent("request_and_get_output") :
           call.requests[k].args = <<call.table_name, "FITS", call.out_file>>

----------------------------------------------------------------------------
(* Claims on execute_casjobs_query (Spec) *)

C6_ReturnedFlag ==
    (Executed /\ call.outcome = "return")
        => /\ call.result \in {Some(0), Some(1)}
           /\ call.result = Some(1)
                 => /\ \E i \in CallMostRecent : call.job_info[i].Status = "5"
                    /\ SubmittedNothing

C6_Witness ==
    /\ Executed /\ Returned(1) /\ Cardinality(CallMatching) = 2
    /\ \E i \in CallMatching : call.job_info[i].Status = "4"

\* C7: when the download of a finished job's table fails, the call ends by
\* raising an exception whose message contains the original error message and
\* the table name; it returns no flag, drops no table and submits no job.
C7_DownloadFailureIsRaised ==
    (Executed /\ call.download_error # None)
        => /\ call.outcome = "raise"
           /\ \E k \in 1..Len(call.message) : call.message[k] = call.download_error[1]
           /\ \E k \in 1..Len(call.message) : call.message[k] = call.table_name
           /\ call.result = None
           /\ Sent("drop_table") = {}
           /\ SubmittedNothing

C7_Witness ==
    /\ Executed /\ call.download_error # None /\ call.outcome = "raise"
    /\ Sent("request_and_get_output") # {}

C16_NeverDownloadAndSubmit ==
    Executed
        => /\ ~(Sent("request_and_get_output") # {} /\ Sent("submit") # {})
           /\ ~(local_files # {} /\ Len(job_history) > Len(call.job_info))

C16_Witness ==
    /\ Executed /\ call.download_result /\ ~call.overwrite_casjobs_query
    /\ DownloadRequestedOnce /\ SubmittedNothing /\ local_files # {}
    /\ \E i \in CallMatching : call.job_info[i].Status = "4"

----------------------------------------------------------------------------
(* Claims on the polling of one query (SpecPoll, SpecPollFinishing) *)

\* The jobs of the history that match the polled query and are ready or started.
InTheWorks ==
    { i \in 1..Len(job_history) :
          /\ SameQuery(job_history[i].Query, <<"q">>)
          /\ job_history[i].Status \in {"0", "1"} }

\* C17: over the calls of one client polling one query with
\* overwrite_casjobs_query False, a call has submitted a job only if the
\* history it read held no matching job or its most recently submitted
\* matching job was canceling, cancelled or failed; and at every moment at
\* most one job matching the query is ready or started.
C17_AtMostOneInTheWorks ==
    /\ (Executed /\ Sent("submit") # {})
          => (CallMatching = {} \/ LatestStatusIn({"2", "3", "4"}))
    /\ Cardinality(InTheWorks) <= 1

C17_Witness ==
    /\ Len(job_history) = 3
    /\ job_history[1].Status = "4" /\ job_history[2].Status = "3"
    /\ job_history[3].Status = "1"
    /\ job_history[2].TimeSubmit = job_history[3].TimeSubmit
    /\ Executed /\ Len(call.job_info) = 3 /\ SubmittedNothing /\ Returned(0)
    /\ call.job_info[1].Status = "1"

----------------------------------------------------------------------------
(* Claims on find_latest_query (SpecFind) *)

FindMatching == MatchingJobs(fq.query, fq.job_info)

\* C4: find_latest_query returns None if and only if no entry of job_info has
\* a Query equal to the query after strip of both; otherwise it returns an
\* index within range of job_info whose entry matches the query.
C4_NoneIffNoMatch ==
    fq.done
        => /\ (fq.job_index = None) <=> (FindMatching = {})
           /\ fq.job_index # None
                 => /\ fq.job_index[1] \in 0..(Len(fq.job_info) - 1)
                    /\ (fq.job_index[1] + 1) \in FindMatching

C4_Witness ==
    /\ fq.done /\ fq.job_index # None /\ Len(fq.job_info) = MaxFindJobs
    /\ fq.job_info[fq.job_index[1] + 1].Query # fq.query
    /\ \E i \in 1..Len(fq.job_info) : i \notin FindMatching

\* C5: when two or more entries match, the index returned is that of a
\* matching entry such that no other matching entry has a strictly later
\* TimeSubmit.
C5_MostRecentMatch ==
    (fq.done /\ Cardinality(FindMatching) >= 2)
        => /\ fq.job_index # None
           /\ (fq.job_index[1] + 1) \in MostRecentJobs(fq.query, fq.job_info)

C5_Witness ==
    /\ fq.done /\ Cardinality(FindMatching) >= 2 /\ fq.job_index # None
    /\ \E i \in FindMatching :
           /\ i < fq.job_index[1] + 1
           /\ Later(fq.job_info[fq.job_index[1] + 1].TimeSubmit, fq.job_info[i].TimeSubmit)
           /\ fq.job_info[i].TimeSubmit[2] > fq.job_info[fq.job_index[1] + 1].TimeSubmit[2]

----------------------------------------------------------------------------
(* Claims on get_exoplanet_orbit_database (SpecEod) *)

\* The rows of a table with the given source id.
RowsOf(table, source_id) ==
    { i \in 1..Len(table) : table[i].gaia_dr2_source_id = source_id }

\* C8: after a fresh query with keep_only_most_massive_planet=True, for every
\* Gaia DR2 source id with several planets in the queried table the returned
\* table holds exactly one row with that source id, and it is the row with the
\* greatest MASS among them.
C8_OnlyMostMassivePlanet ==
    (eod.done /\ eod.fresh /\ eod.keep_only_most_massive_planet)
        => \A source_id \in SourceIds \ {0} :
               Cardinality(RowsOf(eod.queried, source_id)) >= 2
                   => /\ Cardinality(RowsOf(eod.eod_table, source_id)) = 1
                      /\ \A i \in RowsOf(eod.eod_table, source_id) :
                             /\ \E k \in RowsOf(eod.queried, source_id) :
                                    eod.queried[k] = eod.eod_table[i]
                             /\ \A k \in RowsOf(eod.queried, source_id) :
                                    eod.queried[k].MASS <= eod.eod_table[i].MASS

----------------------------------------------------------------------------
(* Claims on the read-cache-or-query helpers (SpecVizier, SpecGacs) *)

\* C9: return_vizier_catalog_as_table runs the vizquery command whenever the
\* query output file is absent or overwrite is True, and skips it only when
\* the file is present and overwrite is False.
C9_VizierQueryRuns ==
    viz.done => (viz.ran_query <=> (~viz.queryfile_present \/ viz.overwrite))

\* The seed's cache files both exist.
CacheFilesExist(files, seed) ==
    isfile(files, <<seed, ".vot">>) /\ isfile(files, <<seed, ".fits">>)

C11_UploadBeforeCrossmatch ==
    (glq.done /\ glq.ran_crossmatch) => glq.input_table_name \in glq.tables_at_query

----------------------------------------------------------------------------
(* Claims on AstroSource (SpecAstro) *)

\* C12: set_gaia_source_id and add_gaia raise RuntimeError whenever no
\* set_simbad_fields has completed on the object, then change no attribute
\* of it, and do not raise that error once a set_simbad_fields with the
\* default votable_fields has completed.
C12_RunSimbadFirst ==
    astro.op \in {"set_gaia_source_id", "add_gaia"}
        => /\ (astro.completed = {})
                 => /\ astro.outcome = "RuntimeError"
                    /\ astro.attributes = astro.before[1]
                    /\ astro.IDS = astro.before[2]
           /\ ("default" \in astro.completed) => astro.outcome # "RuntimeError"

----------------------------------------------------------------------------
(* Claims on run_source_extractor (SpecSex) *)

\* C19: however a call of run_source_extractor ends, by returning or by the
\* RuntimeError of system_command, the working directory after the call is
\* the one at entry.
C19_WorkingDirectoryRestored ==
    sx.done => sx.cwd = sx.cwd_at_entry

\* C20: after any sequence of calls of return_gacs_query_as_table, calls that
\* failed midway included, a seed's .vot (whose presence selects the cached
\* branch) never exists without its .fits (the file that branch reads), and
\* a call that took the cached branch found the .fits present.
C20_CacheConsistent ==
    /\ \A seed \in Seeds :
           isfile(gacs.files, <<seed, ".vot">>) => isfile(gacs.files, <<seed, ".fits">>)
    /\ (gacs.done /\ ~gacs.sent_query)
           => (gacs.fits_before # None /\ gacs.outcome = "return")

====
